---- MODULE Spec2Model ----
(***************************************************************************)
(* A model of gptqmodel/looper/loop_processor.py: the LoopProcessor base   *)
(* class (construction and calibration-dataset validation, the result      *)
(* store, the input cache, the asynchronous log writer and its table       *)
(* printer, and finalize).                                                 *)
(*                                                                         *)
(* Python values are encoded as follows.                                   *)
(*   - an attribute that `del` removed is a record with st = "deleted";    *)
(*   - an exception is its class name ("none" when the call returned);     *)
(*   - a value put on the log queue is a record [ty, id, cols]: ty is the  *)
(*     Python type ("dict", "int", "bool"), id tells values of one type    *)
(*     apart (for int and bool it is the value itself, False = 0), cols    *)
(*     gives for each column key the length of str(value), 0 when the key  *)
(*     is not in the dict.                                                 *)
(***************************************************************************)
EXTENDS Integers, Sequences, FiniteSets, TLC

VARIABLES
    pc,                 \* "new" before __init__, "ready" after it returned, "failed" after it raised
    args,               \* the constructor arguments (and the environment it reads)
    last,               \* the last call made on the processor and how it ended
    prepare_calls,      \* number of calls of prepare_dataset_func
    warnings,           \* the log.warn calls of __init__
    num_batches,        \* self.num_batches
    calibration_dataset,\* self.calibration_dataset
    logger_task,        \* self.logger_task
    _results,           \* self._results
    inputs_cache,       \* self.inputs_cache
    tasks,              \* self.tasks
    log_call_count,     \* self.log_call_count
    log_max_widths,     \* self.log_max_widths
    log_worker,         \* self.log_worker
    log_worker_queue,   \* self.log_worker_queue
    worker_pc,          \* where _thread_log_worker stands
    data,               \* the local `data` of _thread_log_worker
    log_file,           \* the contents of log_tmp_log_file_name
    passed,             \* every stat handed to log_save_async, in call order
    sentinel_puts,      \* for each False that finalize put on the queue, Len(passed) at that time
    threads_started,    \* number of threading.Thread objects started by log_save_async
    callers,            \* where each thread calling log_save_async stands, and its stat
    gpu_memorys,        \* self.gpu_memorys
    cpu_memorys,        \* self.cpu_memorys
    reports,            \* the report_scalar calls made on the tracking task's logger
    collect_calls,      \* number of calls of collect_memory_info that returned
    header_calls,       \* the values of log_call_count at which the header was printed
    row_calls           \* the values of log_call_count at which the data row was printed

ctor_vars == <<pc, args, prepare_calls, warnings, num_batches, calibration_dataset, logger_task>>
store_vars == <<_results, inputs_cache, tasks>>
table_vars == <<log_call_count, log_max_widths, header_calls, row_calls>>
writer_vars == <<log_worker, log_worker_queue, worker_pc, data, log_file, passed, sentinel_puts,
                threads_started>>
telemetry_vars == <<gpu_memorys, cpu_memorys, reports, collect_calls>>
vars == <<ctor_vars, last, store_vars, table_vars, writer_vars, callers, telemetry_vars>>

(***************************************************************************)
(* Bounds of the model.                                                    *)
(***************************************************************************)
MaxBatches == 2     \* longest batch sequence the preparation function returns
MaxDim == 3         \* highest dimensionality of an input_ids field
MaxStats == 2       \* calls of log_save_async / log_new_row in Spec
MaxRows == 22       \* calls of log_new_row in SpecLog
NumCallers == 2     \* threads calling log_save_async in SpecRace
MaxSamples == 2     \* calls of collect_memory_info in SpecDriver
MaxLoss == 210      \* largest loss value of SpecLoss, in tenths

(***************************************************************************)
(* Program constants.                                                      *)
(***************************************************************************)
min_calibration_dataset_size == 256
min_calibration_dataset_input_ids_avg_length == 256
header_period == 20
width_padding == 4

(***************************************************************************)
(* The last call and its outcome.                                          *)
(***************************************************************************)
Call(op, exc, n, ret) == [op |-> op, exc |-> exc, n |-> n, ret |-> ret]

NoCall == Call("", "none", 0, "")

(***************************************************************************)
(* Constructor arguments.  A dataset is its length (only len() is taken of *)
(* the raw dataset); `prepared` is what prepare_dataset_func returns.      *)
(***************************************************************************)
NoDataset == [given |-> FALSE, len |-> 0]

Datasets == {NoDataset} \cup {[given |-> TRUE, len |-> n] : n \in {0, 10, 300}}

\* a shape of d dimensions whose last dimension is n and the others 1
Shape(d, n) == [i \in 1..d |-> IF i = d THEN n ELSE 1]

\* a row's input_ids: a torch.Tensor or a plain (nested) list, with its shape
InputIds == [tensor : BOOLEAN, shape : {Shape(d, n) : d \in 1..MaxDim, n \in {10, 300}}]

RECURSIVE SeqsUpTo(_, _)
SeqsUpTo(S, n) ==
    IF n = 0 THEN {<<>>}
    ELSE LET shorter == SeqsUpTo(S, n - 1)
         IN shorter \cup {Append(s, x) : s \in {t \in shorter : Len(t) = n - 1}, x \in S}

Args == [calibration_dataset : Datasets,
         prepared : SeqsUpTo(InputIds, MaxBatches),
         logger_board : {"", "clearml"},
         clearml_installed : BOOLEAN]

(***************************************************************************)
(* __init__ (lines 41-161).  LoopProcessor_init(a) is the outcome of the   *)
(* constructor on arguments a: the exception it raises ("none" when it     *)
(* returns), the dimensionality the message names, how often it called the *)
(* preparation function, the warnings it logged and the fields it set.     *)
(***************************************************************************)

\* lines 103-117: the clearml import fails when the optional packages are missing
ImportFails(a) == a.logger_board = "clearml" /\ ~a.clearml_installed

\* lines 113-117
LoggerTaskOf(a) == IF a.logger_board = "clearml" THEN "Task" ELSE "None"

\* a constructor that never finds the dataset empty
DatasetIsEmpty_Never(ds) == FALSE

\* line 122
DatasetIsEmpty(ds) == ds.len = 0

\* input_ids.dim() for a tensor; the nesting depth for a list
Dim(ids) == Len(ids.shape)

\* line 141: the dimensionalities __init__ accepts for a tensor
DimAccepted(ids) == Dim(ids) <= 2

\* lines 140-146: the rows on which __init__ raises the dimensionality fault
RaisesOnRow(ids) == ids.tensor /\ ~DimAccepted(ids)

\* lines 142 and 148: shape[-1] of a tensor, len() of a list
InputIdsLength(ids) == IF ids.tensor THEN ids.shape[Len(ids.shape)] ELSE ids.shape[1]

\* the rows of the loop of line 138 that raise
BadRows(p) == {i \in 1..Len(p) : RaisesOnRow(p[i])}

\* the loop stops at the first of them
FirstBadRow(p) == CHOOSE i \in BadRows(p) : \A j \in BadRows(p) : i <= j

RECURSIVE TotalInputIdsLength(_)
TotalInputIdsLength(p) ==
    IF p = <<>> THEN 0 ELSE InputIdsLength(Head(p)) + TotalInputIdsLength(Tail(p))

\* lines 127-129 and 153-157; avg = total / len, compared without dividing
WarningsOf(a) ==
    (IF a.calibration_dataset.len < min_calibration_dataset_size THEN {"size"} ELSE {})
    \cup
    (IF TotalInputIdsLength(a.prepared)
            < min_calibration_dataset_input_ids_avg_length * Len(a.prepared)
     THEN {"avg"} ELSE {})

\* a constructor that counts the raw samples instead of the prepared batches
NumBatchesOf_Raw(a) == a.calibration_dataset.len

\* line 159: len() of the prepared dataset
NumBatchesOf(a) == Len(a.prepared)

CtorResult(exc, n, calls, warn, nb, ds, task) ==
    [exc |-> exc, n |-> n, prepare_calls |-> calls, warnings |-> warn,
     num_batches |-> nb, calibration_dataset |-> ds, logger_task |-> task]

Unset == [set |-> FALSE, n |-> 0]
NoneDataset == [st |-> "None", len |-> 0]

\* lines 121-161, reached only when the logger set-up did not raise
PrepareDataset(a) ==
    IF ~a.calibration_dataset.given
    THEN CtorResult("none", 0, 0, {}, Unset, NoneDataset, LoggerTaskOf(a))
    ELSE IF DatasetIsEmpty(a.calibration_dataset)
    THEN CtorResult("ValueError", 0, 0, {}, Unset, NoneDataset, LoggerTaskOf(a))
    ELSE LET size_warn == IF a.calibration_dataset.len < min_calibration_dataset_size
                          THEN {"size"} ELSE {}
         IN IF BadRows(a.prepared) # {}
            THEN CtorResult("ValueError", Dim(a.prepared[FirstBadRow(a.prepared)]), 1,
                            size_warn, Unset, NoneDataset, LoggerTaskOf(a))
            ELSE IF Len(a.prepared) = 0
            THEN CtorResult("ZeroDivisionError", 0, 1, size_warn, Unset, NoneDataset,
                            LoggerTaskOf(a))
            ELSE CtorResult("none", 0, 1, WarningsOf(a),
                            [set |-> TRUE, n |-> NumBatchesOf(a)],
                            [st |-> "set", len |-> Len(a.prepared)], LoggerTaskOf(a))

LoopProcessor_init(a) ==
    IF ImportFails(a)
    THEN CtorResult("ImportError", 0, 0, {}, Unset, NoneDataset, "None")
    ELSE PrepareDataset(a)

(***************************************************************************)
(* The fields __init__ sets before it looks at the dataset (lines 55-101). *)
(***************************************************************************)
Keys == {"k1", "k2"}
Values == {"None", "a"}
Absent == "absent"

Cols == {"loss", "layer"}
NoWidths == [c \in Cols |-> 0]

EmptyResults == [st |-> "set", map |-> [k \in Keys |-> Absent]]
DeletedResults == [st |-> "deleted", map |-> [k \in Keys |-> Absent]]

\* InputCache(None, None, None, None): layer_inputs is None, and so are the
\* three other fields, kept together as `others`
InputCache(layer_inputs, others) ==
    [st |-> "obj", layer_inputs |-> layer_inputs, others |-> others]

NewInputCache == InputCache("None", "None")
DeletedInputCache == [st |-> "deleted", layer_inputs |-> "None", others |-> "None"]

\* the threads that call log_save_async; a thread that is in no call is Idle
Callers == 1..NumCallers
Idle == [at |-> "idle", stat |-> [ty |-> "none", id |-> 0, cols |-> NoWidths]]

FieldsInit ==
    /\ _results = EmptyResults
    /\ inputs_cache = NewInputCache
    /\ tasks = {}
    /\ log_call_count = 0
    /\ log_max_widths = NoWidths
    /\ header_calls = {}
    /\ row_calls = {}
    /\ log_worker = "None"
    /\ log_worker_queue = <<>>
    /\ worker_pc = "unstarted"
    /\ data = [ty |-> "none", id |-> 0, cols |-> NoWidths]
    /\ log_file = <<>>
    /\ passed = <<>>
    /\ sentinel_puts = <<>>
    /\ threads_started = 0
    /\ callers = [t \in Callers |-> Idle]
    /\ gpu_memorys = <<>>
    /\ cpu_memorys = <<>>
    /\ reports = <<>>
    /\ collect_calls = 0

\* the state in which `LoopProcessor(...)` is about to be evaluated on a
InitNew ==
    /\ pc = "new"
    /\ args \in Args
    /\ last = NoCall
    /\ prepare_calls = 0
    /\ warnings = {}
    /\ num_batches = Unset
    /\ calibration_dataset = NoneDataset
    /\ logger_task = "None"
    /\ FieldsInit

\* __init__ runs to its end or to its raise
Construct ==
    /\ pc = "new"
    /\ LET r == LoopProcessor_init(args)
       IN /\ pc' = IF r.exc = "none" THEN "ready" ELSE "failed"
          /\ last' = Call("__init__", r.exc, r.n, "")
          /\ prepare_calls' = r.prepare_calls
          /\ warnings' = r.warnings
          /\ num_batches' = r.num_batches
          /\ calibration_dataset' = r.calibration_dataset
          /\ logger_task' = r.logger_task
    /\ UNCHANGED <<args, store_vars, table_vars, writer_vars, callers, telemetry_vars>>

\* number_batches (lines 321-322): reads self.num_batches, which __init__ sets
\* only when a dataset was given
NumberBatches ==
    /\ pc = "ready"
    /\ last' = IF num_batches.set
               THEN Call("number_batches", "none", num_batches.n, "")
               ELSE Call("number_batches", "AttributeError", 0, "")
    /\ UNCHANGED <<ctor_vars, callers, telemetry_vars, store_vars, table_vars, writer_vars>>

NextCtor == Construct \/ NumberBatches

SpecCtor == InitNew /\ [][NextCtor]_vars

(***************************************************************************)
(* The result store (lines 234-242).                                       *)
(***************************************************************************)

\* a lookup that forgets the caller's default
DictGet_NoDefault(map, key, default) == IF map[key] = Absent THEN "None" ELSE map[key]

\* dict.get(key, default)
DictGet(map, key, default) == IF map[key] = Absent THEN default ELSE map[key]

\* line 235: the test of the assert, `self.result_get(key) is None`
SaveAllowed(map, key) == DictGet(map, key, "None") = "None"

\* result_save (lines 234-236)
ResultSave(key, value) ==
    /\ pc = "ready"
    /\ IF _results.st = "deleted"
       THEN /\ last' = Call("result_save", "AttributeError", 0, "")
            /\ UNCHANGED _results
       ELSE IF SaveAllowed(_results.map, key)
       THEN /\ last' = Call("result_save", "none", 0, "")
            /\ _results' = [_results EXCEPT !.map[key] = value]
       ELSE /\ last' = Call("result_save", "AssertionError", 0, "")
            /\ UNCHANGED _results
    /\ UNCHANGED <<ctor_vars, callers, telemetry_vars, inputs_cache, tasks, table_vars, writer_vars>>

\* result_get (lines 238-239)
ResultGet(key, default) ==
    /\ pc = "ready"
    /\ last' = IF _results.st = "deleted"
               THEN Call("result_get", "AttributeError", 0, "")
               ELSE Call("result_get", "none", 0, DictGet(_results.map, key, default))
    /\ UNCHANGED <<ctor_vars, callers, telemetry_vars, store_vars, table_vars, writer_vars>>

\* results (lines 241-242)
Results ==
    /\ pc = "ready"
    /\ last' = IF _results.st = "deleted"
               THEN Call("results", "AttributeError", 0, "")
               ELSE Call("results", "none", 0, "dict")
    /\ UNCHANGED <<ctor_vars, callers, telemetry_vars, store_vars, table_vars, writer_vars>>

(***************************************************************************)
(* The input cache (lines 281-291).                                        *)
(***************************************************************************)
LayerInputs == {"[]", "[x]"}

\* receive_input_cache (lines 281-282): binds the attribute, also after a del
ReceiveInputCache(input_cache) ==
    /\ pc = "ready"
    /\ inputs_cache' = input_cache
    /\ last' = Call("receive_input_cache", "none", 0, "")
    /\ UNCHANGED <<ctor_vars, callers, telemetry_vars, _results, tasks, table_vars, writer_vars>>

\* receive_layer_inputs (lines 286-287)
ReceiveLayerInputs(layer_inputs) ==
    /\ pc = "ready"
    /\ IF inputs_cache.st = "deleted"
       THEN /\ last' = Call("receive_layer_inputs", "AttributeError", 0, "")
            /\ UNCHANGED inputs_cache
       ELSE /\ last' = Call("receive_layer_inputs", "none", 0, "")
            /\ inputs_cache' = [inputs_cache EXCEPT !.layer_inputs = layer_inputs]
    /\ UNCHANGED <<ctor_vars, callers, telemetry_vars, _results, tasks, table_vars, writer_vars>>

\* a clear_cache_data that swaps in a fresh input cache
ClearCacheData_NewCache ==
    /\ pc = "ready"
    /\ tasks' = {}
    /\ IF inputs_cache.st = "deleted"
       THEN /\ last' = Call("clear_cache_data", "AttributeError", 0, "")
            /\ UNCHANGED inputs_cache
       ELSE /\ last' = Call("clear_cache_data", "none", 0, "")
            /\ inputs_cache' = InputCache("[]", "None")
    /\ UNCHANGED <<ctor_vars, callers, telemetry_vars, _results, table_vars, writer_vars>>

\* a clear_cache_data that skips a cache that is gone instead of raising
ClearCacheData_Guarded ==
    /\ pc = "ready"
    /\ tasks' = {}
    /\ last' = Call("clear_cache_data", "none", 0, "")
    /\ inputs_cache' = IF inputs_cache.st = "deleted" THEN inputs_cache
                       ELSE [inputs_cache EXCEPT !.layer_inputs = "[]"]
    /\ UNCHANGED <<ctor_vars, callers, telemetry_vars, _results, table_vars, writer_vars>>

\* clear_cache_data (lines 289-291): line 290 has run when line 291 raises
ClearCacheData ==
    /\ pc = "ready"
    /\ tasks' = {}
    /\ IF inputs_cache.st = "deleted"
       THEN /\ last' = Call("clear_cache_data", "AttributeError", 0, "")
            /\ UNCHANGED inputs_cache
       ELSE /\ last' = Call("clear_cache_data", "none", 0, "")
            /\ inputs_cache' = [inputs_cache EXCEPT !.layer_inputs = "[]"]
    /\ UNCHANGED <<ctor_vars, callers, telemetry_vars, _results, table_vars, writer_vars>>

(***************************************************************************)
(* Values handed to the log writer.                                        *)
(***************************************************************************)
Row(id, loss, layer) ==
    [ty |-> "dict", id |-> id, cols |-> [c \in Cols |-> IF c = "loss" THEN loss ELSE layer]]

PyInt(n) == [ty |-> "int", id |-> n, cols |-> NoWidths]

\* Python's False; finalize puts it on the queue
False == [ty |-> "bool", id |-> 0, cols |-> NoWidths]

\* line 171, `data == False`: Python compares bool and int by value, and a
\* dict (the empty one too) is never equal to False
EqFalse(d) == d.ty \in {"int", "bool"} /\ d.id = 0

\* line 174, json.dump: what is appended to the file for a value
JsonDump(d) ==
    [json |-> CASE d.ty = "dict" -> "object"
                [] d.ty = "int" -> "number"
                [] d.ty = "bool" -> IF d.id = 0 THEN "false" ELSE "true",
     id |-> d.id, cols |-> d.cols]

\* the stats of Spec: {}, {"loss": 0.0000123, "layer": 11} and 0
Stats == {Row(0, 0, 0), Row(0, 9, 2), PyInt(0)}

\* the stat of the n-th call of log_new_row in SpecLog: a dict whose entries
\* vary with n
RowAt(n) == Row(n, 3 + 3 * (n % 3), n % 2)

(***************************************************************************)
(* log_save_async and its worker (lines 163-182).                          *)
(***************************************************************************)

\* a queue that hands out the newest value first
Put_Front(q, x) == <<x>> \o q

\* queue.Queue.put and get: first in, first out
Put(q, x) == Append(q, x)

\* a log_save_async that starts a new worker when the old one has exited
log_save_async_Restart(stat) ==
    /\ log_worker' = "Thread"
    /\ worker_pc' = IF log_worker = "None" \/ worker_pc = "exited" THEN "get" ELSE worker_pc
    /\ log_worker_queue' = Put(log_worker_queue, stat)
    /\ passed' = Append(passed, stat)
    /\ threads_started' = IF log_worker = "None" \/ worker_pc = "exited"
                          THEN threads_started + 1 ELSE threads_started
    /\ UNCHANGED <<data, log_file, sentinel_puts>>

\* lines 165-182: start the worker when there is none, then put stat
log_save_async(stat) ==
    /\ log_worker' = "Thread"
    /\ worker_pc' = IF log_worker = "None" THEN "get" ELSE worker_pc
    /\ log_worker_queue' = Put(log_worker_queue, stat)
    /\ passed' = Append(passed, stat)
    /\ threads_started' = IF log_worker = "None" THEN threads_started + 1 ELSE threads_started
    /\ UNCHANGED <<data, log_file, sentinel_puts>>

LogSaveAsync(stat) ==
    /\ pc = "ready"
    /\ log_save_async(stat)
    /\ last' = Call("log_save_async", "none", 0, "")
    /\ UNCHANGED <<ctor_vars, callers, telemetry_vars, store_vars, table_vars>>

\* lines 169-172: the worker takes the next value and returns on False
WorkerExits(d) == EqFalse(d)

WorkerGet ==
    /\ worker_pc = "get"
    /\ log_worker_queue # <<>>
    /\ data' = Head(log_worker_queue)
    /\ log_worker_queue' = Tail(log_worker_queue)
    /\ worker_pc' = IF WorkerExits(Head(log_worker_queue)) THEN "exited" ELSE "write"
    /\ UNCHANGED <<ctor_vars, callers, telemetry_vars, last, store_vars, table_vars,
                   log_worker, log_file, passed, sentinel_puts, threads_started>>

\* lines 173-177: append the value to the file
WorkerWrite ==
    /\ worker_pc = "write"
    /\ log_file' = Append(log_file, JsonDump(data))
    /\ worker_pc' = "get"
    /\ UNCHANGED <<ctor_vars, callers, telemetry_vars, last, store_vars, table_vars,
                   log_worker, log_worker_queue, data, passed, sentinel_puts, threads_started>>

(***************************************************************************)
(* log_new_row (lines 196-230).                                            *)
(***************************************************************************)
KeyLen(c) == IF c = "loss" THEN 4 ELSE 5

\* line 202
CurrentWidth(c, vlen) == (IF KeyLen(c) > vlen THEN KeyLen(c) ELSE vlen) + width_padding

\* a table that takes each row's width as the column's width
UpdateWidths_Last(w, stat) ==
    [c \in Cols |-> IF stat.cols[c] = 0 THEN w[c] ELSE CurrentWidth(c, stat.cols[c])]

\* lines 201-204; a width of 0 stands for a key that is not in log_max_widths
UpdateWidths(w, stat) ==
    [c \in Cols |->
        IF stat.cols[c] = 0 THEN w[c]
        ELSE IF w[c] = 0 \/ CurrentWidth(c, stat.cols[c]) > w[c]
             THEN CurrentWidth(c, stat.cols[c])
             ELSE w[c]]

\* a header on every 20th call instead of the call after it
HeaderDue_Multiple(n) == n % header_period = 0

\* line 206
HeaderDue(n) == n % header_period = 1

\* a stat that is no dict has no items(): line 201 raises after lines 197-198
LogNewRow(stat) ==
    /\ pc = "ready"
    /\ log_call_count' = log_call_count + 1
    /\ log_save_async(stat)
    /\ IF stat.ty = "dict"
       THEN /\ log_max_widths' = UpdateWidths(log_max_widths, stat)
            /\ header_calls' = IF HeaderDue(log_call_count + 1)
                               THEN header_calls \cup {log_call_count + 1}
                               ELSE header_calls
            /\ row_calls' = row_calls \cup {log_call_count + 1}
            /\ last' = Call("log_new_row", "none", 0, "")
       ELSE /\ UNCHANGED <<log_max_widths, header_calls, row_calls>>
            /\ last' = Call("log_new_row", "AttributeError", 0, "")
    /\ UNCHANGED <<ctor_vars, callers, telemetry_vars, store_vars>>

(***************************************************************************)
(* finalize (lines 307-312).                                               *)
(***************************************************************************)

\* a finalize that puts the sentinel whether or not a worker was started
PutSentinel_Unguarded ==
    /\ log_worker_queue' = Put(log_worker_queue, False)
    /\ sentinel_puts' = Append(sentinel_puts, Len(passed))

\* lines 311-312
PutSentinel ==
    IF log_worker # "None"
    THEN /\ log_worker_queue' = Put(log_worker_queue, False)
         /\ sentinel_puts' = Append(sentinel_puts, Len(passed))
    ELSE UNCHANGED <<log_worker_queue, sentinel_puts>>

\* `del` of an attribute that is not there raises AttributeError; what the
\* earlier lines did stays done
Finalize ==
    /\ pc = "ready"
    /\ IF inputs_cache.st = "deleted"
       THEN /\ last' = Call("finalize", "AttributeError", 308, "")
            /\ UNCHANGED <<inputs_cache, _results, log_worker_queue, sentinel_puts>>
       ELSE /\ inputs_cache' = DeletedInputCache
            /\ IF _results.st = "deleted"
               THEN /\ last' = Call("finalize", "AttributeError", 309, "")
                    /\ UNCHANGED <<_results, log_worker_queue, sentinel_puts>>
               ELSE /\ _results' = DeletedResults
                    /\ PutSentinel
                    /\ last' = Call("finalize", "none", 0, "")
    /\ UNCHANGED <<ctor_vars, callers, telemetry_vars, tasks, table_vars, log_worker,
                   worker_pc, data, log_file, passed, threads_started>>

(***************************************************************************)
(* The hooks of the base contract and the driver's calls around a layer.   *)
(***************************************************************************)

\* process (lines 297-298): the body is `pass`, the call returns None
Process ==
    /\ pc = "ready"
    /\ last' = Call("process", "none", 0, "None")
    /\ UNCHANGED <<ctor_vars, store_vars, table_vars, writer_vars, callers, telemetry_vars>>

\* name (lines 327-328): the body is `pass`, the call returns None
Name ==
    /\ pc = "ready"
    /\ last' = Call("name", "none", 0, "None")
    /\ UNCHANGED <<ctor_vars, store_vars, table_vars, writer_vars, callers, telemetry_vars>>

\* one report_scalar call: title and series, the value and the iteration
Scalar(series, value, iteration) ==
    [series |-> series, value |-> value, iteration |-> iteration]

\* a collect_memory_info that samples whether or not a task is configured
Sampled_Always(task) == TRUE

\* line 245: `if self.logger_task is not None`
Sampled(task) == task # "None"

\* collect_memory_info (lines 244-262) with the sampled usages gpu and cpu
CollectMemoryInfo(layer_index, gpu_memory, cpu_memory) ==
    /\ pc = "ready"
    /\ collect_calls' = collect_calls + 1
    /\ last' = Call("collect_memory_info", "none", layer_index, "None")
    /\ IF Sampled(logger_task)
       THEN /\ reports' = reports \o <<Scalar("GPU Memory", gpu_memory, layer_index),
                                        Scalar("CPU Memory", cpu_memory, layer_index)>>
            /\ gpu_memorys' = Append(gpu_memorys, gpu_memory)
            /\ cpu_memorys' = Append(cpu_memorys, cpu_memory)
       ELSE UNCHANGED <<reports, gpu_memorys, cpu_memorys>>
    /\ UNCHANGED <<ctor_vars, store_vars, table_vars, writer_vars, callers>>

\* the names of the modules of a layer
Modules == {"m1"}

\* a concrete algorithm's preprocess keeps its working state for a module in
\* the task map: self.tasks[module.name] = ...
TasksSetItem(module) ==
    /\ pc = "ready"
    /\ tasks' = tasks \cup {module}
    /\ last' = Call("preprocess", "none", 0, "None")
    /\ UNCHANGED <<ctor_vars, _results, inputs_cache, table_vars, writer_vars, callers,
                   telemetry_vars>>

\* a release that drops the batch count together with the dataset
ReleaseCalibrationDataset_Both ==
    /\ pc = "ready"
    /\ calibration_dataset' = [st |-> "deleted", len |-> 0]
    /\ num_batches' = Unset
    /\ last' = Call("release_calibration_dataset", "none", 0, "None")
    /\ UNCHANGED <<pc, args, prepare_calls, warnings, logger_task>>
    /\ UNCHANGED <<store_vars, table_vars, writer_vars, callers, telemetry_vars>>

\* release_calibration_dataset (lines 318-319): `del self.calibration_dataset`
\* raises when the attribute is already gone
ReleaseCalibrationDataset ==
    /\ pc = "ready"
    /\ IF calibration_dataset.st = "deleted"
       THEN /\ last' = Call("release_calibration_dataset", "AttributeError", 0, "")
            /\ UNCHANGED calibration_dataset
       ELSE /\ last' = Call("release_calibration_dataset", "none", 0, "None")
            /\ calibration_dataset' = [st |-> "deleted", len |-> 0]
    /\ UNCHANGED <<pc, args, prepare_calls, warnings, num_batches, logger_task>>
    /\ UNCHANGED <<store_vars, table_vars, writer_vars, callers, telemetry_vars>>

(***************************************************************************)
(* Specifications.                                                         *)
(***************************************************************************)

\* the processors whose life Spec and SpecLog follow: without a dataset and
\* with one batch, with and without the tracking task
OneBatch == <<[tensor |-> TRUE, shape |-> Shape(2, 300)]>>

LifeArgs ==
    {a \in Args : /\ LoopProcessor_init(a).exc = "none"
                  /\ a.clearml_installed
                  /\ a.calibration_dataset.given = (a.logger_board = "clearml")
                  /\ \/ ~a.calibration_dataset.given /\ a.prepared = <<>>
                     \/ a.calibration_dataset.len = 300 /\ a.prepared = OneBatch}

\* the state after construction
Init ==
    /\ pc = "ready"
    /\ args \in LifeArgs
    /\ last = Call("__init__", "none", 0, "")
    /\ prepare_calls = LoopProcessor_init(args).prepare_calls
    /\ warnings = LoopProcessor_init(args).warnings
    /\ num_batches = LoopProcessor_init(args).num_batches
    /\ calibration_dataset = LoopProcessor_init(args).calibration_dataset
    /\ logger_task = LoopProcessor_init(args).logger_task
    /\ FieldsInit

Next ==
    \/ \E k \in Keys, v \in Values : ResultSave(k, v)
    \/ \E k \in Keys, d \in {"None", "dflt"} : ResultGet(k, d)
    \/ Results
    \/ \E li \in LayerInputs : ReceiveInputCache(InputCache(li, "None"))
    \/ \E li \in LayerInputs : ReceiveLayerInputs(li)
    \/ ClearCacheData
    \/ \E stat \in Stats : Len(passed) < MaxStats /\ LogSaveAsync(stat)
    \/ \E stat \in Stats : Len(passed) < MaxStats /\ LogNewRow(stat)
    \/ WorkerGet
    \/ WorkerWrite
    \/ Finalize
    \/ NumberBatches

Spec == Init /\ [][Next]_vars

\* the table printer and the log writer over more than one header period
NextLog ==
    \/ log_call_count < MaxRows /\ LogNewRow(RowAt(log_call_count + 1))
    \/ WorkerGet
    \/ WorkerWrite
    \/ Finalize

SpecLog == Init /\ [][NextLog]_vars

\* the processors whose life SpecDriver follows: without a dataset and with
\* one or two prepared batches, with and without the tracking task
TwoBatches == <<[tensor |-> TRUE, shape |-> Shape(2, 300)],
                [tensor |-> FALSE, shape |-> Shape(1, 300)]>>

DriverArgs ==
    {a \in Args : /\ LoopProcessor_init(a).exc = "none"
                  /\ a.clearml_installed
                  /\ \/ ~a.calibration_dataset.given /\ a.prepared = <<>>
                     \/ a.calibration_dataset.len = 300 /\ a.prepared \in {OneBatch, TwoBatches}}

InitDriver ==
    /\ pc = "ready"
    /\ args \in DriverArgs
    /\ last = Call("__init__", "none", 0, "")
    /\ prepare_calls = LoopProcessor_init(args).prepare_calls
    /\ warnings = LoopProcessor_init(args).warnings
    /\ num_batches = LoopProcessor_init(args).num_batches
    /\ calibration_dataset = LoopProcessor_init(args).calibration_dataset
    /\ logger_task = LoopProcessor_init(args).logger_task
    /\ FieldsInit

\* the usages a sample can read
Usages == {<<1, 3>>, <<2, 4>>}

\* the hooks and the driver's calls of one or two layers
NextDriver ==
    \/ Process
    \/ Name
    \/ \E layer \in 0..1, u \in Usages :
          collect_calls < MaxSamples /\ CollectMemoryInfo(layer, u[1], u[2])
    \/ \E m \in Modules : TasksSetItem(m)
    \/ ResultSave("k1", "a")
    \/ log_call_count = 0 /\ LogNewRow(RowAt(1))
    \/ \E li \in LayerInputs, o \in {"None", "kwargs"} : ReceiveInputCache(InputCache(li, o))
    \/ \E li \in LayerInputs : ReceiveLayerInputs(li)
    \/ ClearCacheData
    \/ ReleaseCalibrationDataset
    \/ NumberBatches
    \/ Finalize

SpecDriver == InitDriver /\ [][NextDriver]_vars

(***************************************************************************)
(* loss_color (lines 184-194).  Loss values are counted in tenths, so the  *)
(* thresholds 0.1, 1, 5 and 20 are 1, 10, 50 and 200.                      *)
(***************************************************************************)
Green == "ESC[92m"
Cyan == "ESC[96m"
Yellow == "ESC[93m"
Orange == "ESC[33m"
Red == "ESC[91m"

\* bands that leave their upper bound to the next band
loss_color_Exclusive(loss_value) ==
    IF loss_value < 1 THEN Green
    ELSE IF loss_value < 10 THEN Cyan
    ELSE IF loss_value < 50 THEN Yellow
    ELSE IF loss_value < 200 THEN Orange
    ELSE Red

loss_color(loss_value) ==
    IF loss_value <= 1 THEN Green
    ELSE IF loss_value <= 10 THEN Cyan
    ELSE IF loss_value <= 50 THEN Yellow
    ELSE IF loss_value <= 200 THEN Orange
    ELSE Red

\* a call of loss_color
LossColor(loss_value) ==
    /\ pc = "ready"
    /\ last' = Call("loss_color", "none", loss_value, loss_color(loss_value))
    /\ UNCHANGED <<ctor_vars, store_vars, table_vars, writer_vars, callers, telemetry_vars>>

\* the loss values tried, in tenths
LossValues == (-5)..MaxLoss

NextLoss == \E x \in LossValues : LossColor(x)

SpecLoss == Init /\ [][NextLoss]_vars

(***************************************************************************)
(* log_save_async called from several threads: the statements of lines     *)
(* 165-182 of one call interleave with those of another.  worker_pc, data  *)
(* and log_file follow the worker started first; threads_started counts    *)
(* every Thread.start().                                                    *)
(***************************************************************************)
InCall == {t \in Callers : callers[t].at # "idle"}

\* line 165: the caller reads self.log_worker
CallerCheck(t, stat) ==
    /\ pc = "ready"
    /\ callers[t].at = "idle"
    /\ Len(passed) + Cardinality(InCall) < MaxStats
    /\ callers' = [callers EXCEPT ![t] = [at |-> IF log_worker = "None" THEN "start" ELSE "put",
                                          stat |-> stat]]
    /\ UNCHANGED <<ctor_vars, last, store_vars, table_vars, writer_vars, telemetry_vars>>

\* lines 179-180: the caller that saw no worker creates one and starts it
CallerStart(t) ==
    /\ callers[t].at = "start"
    /\ log_worker' = "Thread"
    /\ threads_started' = threads_started + 1
    /\ worker_pc' = IF worker_pc = "unstarted" THEN "get" ELSE worker_pc
    /\ callers' = [callers EXCEPT ![t].at = "put"]
    /\ UNCHANGED <<ctor_vars, last, store_vars, table_vars, telemetry_vars,
                   log_worker_queue, data, log_file, passed, sentinel_puts>>

\* line 182: the caller puts its value and returns
CallerPut(t) ==
    /\ callers[t].at = "put"
    /\ log_worker_queue' = Put(log_worker_queue, callers[t].stat)
    /\ passed' = Append(passed, callers[t].stat)
    /\ callers' = [callers EXCEPT ![t] = Idle]
    /\ last' = Call("log_save_async", "none", 0, "")
    /\ UNCHANGED <<ctor_vars, store_vars, table_vars, telemetry_vars,
                   log_worker, worker_pc, data, log_file, sentinel_puts, threads_started>>

NextRace ==
    \/ \E t \in Callers, stat \in Stats : CallerCheck(t, stat)
    \/ \E t \in Callers : CallerStart(t)
    \/ \E t \in Callers : CallerPut(t)
    \/ WorkerGet
    \/ WorkerWrite

SpecRace == Init /\ [][NextRace]_vars

(***************************************************************************)
(* Properties.                                                             *)
(***************************************************************************)

\* finalize has released the result store (line 309 has run)
Released == _results.st = "deleted"

\* C1: once a key is in the result store, whatever value it holds (None
\* included), a result_save on that key raises and the stored value stays.
C1_SecondSaveFaults ==
    [][\A k \in Keys, v \in Values :
          (_results.st = "set" /\ _results.map[k] # Absent /\ ResultSave(k, v))
          => (last'.exc = "AssertionError" /\ _results'.map[k] = _results.map[k])]_vars

\* a second result_save on a key went through and replaced the stored None
C1_Overwritten ==
    /\ last.op = "result_save"
    /\ last.exc = "none"
    /\ \E k \in Keys : _results.map[k] = "a"
    /\ \E k \in Keys : _results.map[k] = "None"

\* C2 as stated: in every reachable state result_get returns without raising,
\* the stored value for a present key and the default for an absent one, and
\* leaves the result store as it is.
C2_GetNeverRaises ==
    [][\A k \in Keys, d \in {"None", "dflt"} :
          ResultGet(k, d)
          => /\ last'.exc = "none"
             /\ last'.ret = IF _results.map[k] # Absent THEN _results.map[k] ELSE d
             /\ _results' = _results]_vars

\* C2 as amended: until finalize releases the result store, result_get returns
\* without raising, the stored value for a present key and the supplied
\* default for an absent one, and leaves the store as it is; once the store is
\* released it raises AttributeError.
C2_GetBeforeFinalize ==
    [][\A k \in Keys, d \in {"None", "dflt"} :
          ResultGet(k, d)
          => /\ _results' = _results
             /\ IF Released
                THEN last'.exc = "AttributeError"
                ELSE /\ last'.exc = "none"
                     /\ last'.ret = IF _results.map[k] # Absent THEN _results.map[k] ELSE d]_vars

\* result_get returned the caller's default for an absent key while the other
\* key was stored
C2_Witness ==
    /\ last.op = "result_get"
    /\ last.exc = "none"
    /\ last.ret = "dflt"
    /\ \E k \in Keys : _results.map[k] = "a"
    /\ \E k \in Keys : _results.map[k] = Absent

\* the records handed to log_save_async before finalize put its sentinel
PassedBeforeFinalize ==
    IF sentinel_puts = <<>> THEN passed ELSE SubSeq(passed, 1, sentinel_puts[1])

\* C3: the log file always holds, as JSON objects, a prefix of the records
\* passed to log_new_row, in call order, each once; when the worker has exited
\* after finalize, it holds exactly the records passed before finalize.
C3_LogOrder ==
    /\ Len(log_file) <= Len(PassedBeforeFinalize)
    /\ \A i \in 1..Len(log_file) :
          /\ log_file[i].json = "object"
          /\ log_file[i].id = passed[i].id
          /\ log_file[i].cols = passed[i].cols
    /\ \A i, j \in 1..Len(log_file) : i # j => log_file[i] # log_file[j]
    /\ worker_pc = "exited" => Len(log_file) = Len(PassedBeforeFinalize)

\* 21 calls of log_new_row, then finalize, and the worker has exited
C3_Witness ==
    /\ worker_pc = "exited"
    /\ log_call_count = 21
    /\ sentinel_puts = <<21>>
    /\ Len(log_file) = 21

\* C4 as stated: after finalize the queue has received exactly one sentinel,
\* however many log_new_row calls came before it (none included).
C4_ExactlyOneSentinel == Released => Len(sentinel_puts) = 1

\* C4 as amended: no sentinel is put before finalize; the finalize that
\* releases the store puts one sentinel when a record was logged before it
\* (a worker exists) and none when nothing was logged; after that the count
\* never changes, a second finalize included.
C4_SentinelOnce ==
    [][/\ ~Released => sentinel_puts = <<>>
       /\ (~Released /\ Released')
          => sentinel_puts' = IF passed = <<>> THEN <<>> ELSE <<Len(passed)>>
       /\ Released => sentinel_puts' = sentinel_puts]_vars

\* finalize was invoked a second time after it had put its sentinel
C4_Witness ==
    /\ Released
    /\ last.op = "finalize"
    /\ last.exc = "AttributeError"
    /\ Len(sentinel_puts) = 1

\* C5 as stated: after finalize every result_save, result_get, results,
\* receive_layer_inputs and clear_cache_data raises, whatever was called in
\* between.
C5_AccessFails ==
    (Released /\ last.op \in {"result_save", "result_get", "results",
                               "receive_layer_inputs", "clear_cache_data"})
    => last.exc # "none"

\* C5 as amended: after finalize, result_save, result_get and results always
\* raise; receive_layer_inputs and clear_cache_data raise as long as the
\* input cache is still released, and return once receive_input_cache has
\* bound a new one.
C5_ReleasedAccessFails ==
    Released
    => /\ last.op \in {"result_save", "result_get", "results"}
          => last.exc = "AttributeError"
       /\ last.op \in {"receive_layer_inputs", "clear_cache_data"}
          => (last.exc = "AttributeError" <=> inputs_cache.st = "deleted")
       /\ last.op \in {"receive_layer_inputs", "clear_cache_data"}
          => last.exc \in {"AttributeError", "none"}

\* clear_cache_data raised on the released cache
C5_Witness ==
    /\ Released
    /\ inputs_cache.st = "deleted"
    /\ last.op = "clear_cache_data"
    /\ last.exc = "AttributeError"

\* C6: a finalize after the first returns without raising and changes
\* nothing.
C6_FinalizeIdempotent ==
    [][(Released /\ Finalize)
       => (last'.exc = "none" /\ UNCHANGED <<store_vars, table_vars, writer_vars>>)]_vars

\* the second finalize raised at its first line
C6_SecondFinalizeRaised ==
    /\ Released
    /\ last = Call("finalize", "AttributeError", 308, "")

\* the constructor was called on an empty (not null) calibration dataset
EmptyDatasetGiven ==
    pc # "new" /\ args.calibration_dataset.given /\ args.calibration_dataset.len = 0

\* C7 as stated: construction on an empty dataset raises the validation
\* fault, whatever the other arguments, and never calls the preparation
\* function.
C7_EmptyAlwaysValueError ==
    EmptyDatasetGiven => (pc = "failed" /\ last.exc = "ValueError" /\ prepare_calls = 0)

\* C7 as amended: construction on an empty dataset always fails and never
\* calls the preparation function; it raises the validation fault, except
\* that with logger_board "clearml" and the optional packages missing it has
\* raised ImportError before it looks at the dataset.
C7_EmptyDatasetFails ==
    EmptyDatasetGiven
    => /\ pc = "failed"
       /\ prepare_calls = 0
       /\ last.op = "__init__"
       /\ last.exc = IF args.logger_board = "clearml" /\ ~args.clearml_installed
                     THEN "ImportError" ELSE "ValueError"

\* the validation fault on an empty dataset, with the tracking backend
\* selected and installed
C7_Witness ==
    /\ EmptyDatasetGiven
    /\ args.logger_board = "clearml"
    /\ args.clearml_installed
    /\ args.prepared # <<>>
    /\ last = Call("__init__", "ValueError", 0, "")

\* the raw dataset has the minimum size and the prepared batches' input_ids
\* have the minimum average length
MeetsMinimums ==
    /\ args.calibration_dataset.given
    /\ args.calibration_dataset.len >= 256
    /\ args.prepared # <<>>
    /\ \A i \in 1..Len(args.prepared) :
          LET ids == args.prepared[i]
          IN (IF ids.tensor THEN ids.shape[Len(ids.shape)] ELSE ids.shape[1]) >= 256

\* the logger set-up of the constructor went through
LoggerAvailable == ~(args.logger_board = "clearml" /\ ~args.clearml_installed)

C9_DimFault ==
    (pc # "new" /\ prepare_calls = 1)
    => LET high == {i \in 1..Len(args.prepared) : Len(args.prepared[i].shape) > 2}
       IN IF high # {}
          THEN /\ pc = "failed"
               /\ last.exc = "ValueError"
               /\ last.n \in {Len(args.prepared[i].shape) : i \in high}
          ELSE last.exc # "ValueError"

\* construction succeeded on a batch whose input_ids is a 3-deep nested list
C9_NestedListAccepted ==
    /\ pc = "ready"
    /\ \E i \in 1..Len(args.prepared) :
          ~args.prepared[i].tensor /\ Len(args.prepared[i].shape) = 3

Wider(a, b) == IF a > b THEN a ELSE b

\* the width the rows passed so far ask of column c: over the rows that carry
\* c, the largest of max(len(c), len(str(value))) + 4; 0 when no row carries c
RECURSIVE WidthAsked(_, _)
WidthAsked(c, rows) ==
    IF rows = <<>> THEN 0
    ELSE LET row == rows[Len(rows)]
             name == IF c = "loss" THEN 4 ELSE 5
             mine == IF row.cols[c] = 0 THEN 0 ELSE Wider(name, row.cols[c]) + 4
         IN Wider(mine, WidthAsked(c, SubSeq(rows, 1, Len(rows) - 1)))

\* C11: over a run of log_new_row calls a known column stays known, no
\* column's width decreases, and after each call the width of a column is
\* the largest max(len(name), len(rendered value)) + 4 over the rows so far
\* that carry it.
C11_WidthsGrow ==
    [][\A c \in Cols :
          /\ log_max_widths[c] # 0 => log_max_widths'[c] # 0
          /\ log_max_widths'[c] >= log_max_widths[c]
          /\ log_max_widths'[c] = WidthAsked(c, passed')]_vars

\* a row with a shorter loss value came after a longer one and the column
\* kept the longer width; the other column is known too
C11_Witness ==
    /\ log_call_count = 3
    /\ passed[2].cols["loss"] = 9
    /\ passed[3].cols["loss"] = 3
    /\ log_max_widths["loss"] = 13
    /\ log_max_widths["layer"] = 9

\* C12: a call of process or of name on a processor that does not override
\* them never returns normally; it raises a not-implemented fault.
C12_HooksRaise ==
    last.op \in {"process", "name"} => last.exc = "NotImplementedError"

\* process returned None on the base processor
C12_ProcessReturned == last = Call("process", "none", 0, "None")

\* C13: loss_color gives every loss value exactly one colour: green up to
\* 0.1, cyan above 0.1 up to 1, yellow above 1 up to 5, orange above 5 up to
\* 20, red above 20; each boundary value belongs to the lower band (values in
\* tenths).
C13_LossBands ==
    last.op = "loss_color"
    => LET x == last.n
           c == last.ret
       IN /\ last.exc = "none"
          /\ c \in {Green, Cyan, Yellow, Orange, Red}
          /\ c = Green <=> x <= 1
          /\ c = Cyan <=> (1 < x /\ x <= 10)
          /\ c = Yellow <=> (10 < x /\ x <= 50)
          /\ c = Orange <=> (50 < x /\ x <= 200)
          /\ c = Red <=> 200 < x

\* the boundary value 20 was coloured orange
C13_Witness == last = Call("loss_color", "none", 200, Orange)

\* C14: after finalize has put the sentinel, the worker does not exit while a
\* record enqueued before the sentinel is unwritten: once it has exited the
\* log file holds every record passed before the sentinel.
C14_DrainsBeforeExit ==
    (sentinel_puts # <<>> /\ worker_pc = "exited") => Len(log_file) = sentinel_puts[1]

\* the worker has exited after finalize and a dict record enqueued before
\* the sentinel is not in the log file
C14_ExitedUndrained ==
    /\ sentinel_puts # <<>>
    /\ worker_pc = "exited"
    /\ \E i \in 1..sentinel_puts[1] : passed[i].ty = "dict" /\ i > Len(log_file)

\* C15: the worker stops only on the sentinel that finalize puts: whatever
\* record values were passed (0 and False included), an exited worker means
\* finalize has put its sentinel, and every value passed before it was written.
C15_ExitsOnlyOnSentinel ==
    worker_pc = "exited"
    => /\ sentinel_puts # <<>>
       /\ Len(log_file) = sentinel_puts[1]

\* the worker has exited on the record 0 and finalize was never called
C15_ExitedOnZero ==
    /\ worker_pc = "exited"
    /\ sentinel_puts = <<>>
    /\ ~Released
    /\ data = PyInt(0)

\* C16: whatever the interleaving of the callers of log_save_async, at most
\* one worker thread is ever started for a processor, and none exists before
\* the first call.
C16_OneWorker ==
    /\ threads_started <= 1
    /\ (passed = <<>> /\ InCall = {}) => (threads_started = 0 /\ log_worker = "None")

\* two callers have each started a worker thread
C16_TwoWorkers == threads_started = 2 /\ log_worker = "Thread"

C18_ClearFrame ==
    [][(~Released /\ ClearCacheData)
       => /\ last'.exc = "none"
          /\ tasks' = {}
          /\ inputs_cache'.layer_inputs = "[]"
          /\ inputs_cache'.st = inputs_cache.st
          /\ inputs_cache'.others = inputs_cache.others
          /\ _results' = _results
          /\ log_call_count' = log_call_count
          /\ log_max_widths' = log_max_widths
          /\ gpu_memorys' = gpu_memorys
          /\ cpu_memorys' = cpu_memorys
          /\ UNCHANGED <<ctor_vars, writer_vars, reports, collect_calls, header_calls,
                         row_calls, callers>>]_vars

\* clear_cache_data has returned on a processor whose result store, row
\* counter, widths, telemetry series and other cache fields are all in use
C18_Witness ==
    /\ last = Call("clear_cache_data", "none", 0, "")
    /\ tasks = {}
    /\ inputs_cache = InputCache("[]", "kwargs")
    /\ _results.map["k1"] = "a"
    /\ log_call_count = 1
    /\ log_max_widths["loss"] # 0
    /\ Len(gpu_memorys) = 2

\* the records passed to log_save_async after finalize put its sentinel
PassedAfterFinalize ==
    IF sentinel_puts = <<>> THEN <<>>
    ELSE SubSeq(passed, sentinel_puts[1] + 1, Len(passed))

\* the last n values of queue q
Newest(q, n) == SubSeq(q, Len(q) - n + 1, Len(q))

\* C19: once finalize has put the sentinel (a worker had been started), no
\* second worker is ever started, every record logged afterwards stays on
\* the queue behind the sentinel, and the log file never holds more than the
\* records passed before the sentinel.
C19_NoRestart ==
    sentinel_puts # <<>>
    => /\ threads_started = 1
       /\ Len(log_file) <= sentinel_puts[1]
       /\ Len(log_worker_queue) >= Len(PassedAfterFinalize)
       /\ Newest(log_worker_queue, Len(PassedAfterFinalize)) = PassedAfterFinalize
       /\ Len(log_worker_queue) > Len(PassedAfterFinalize)
          => log_worker_queue[Len(log_worker_queue) - Len(PassedAfterFinalize)] = False

\* a row was logged after finalize; the worker had written the earlier row
\* and exited on the sentinel, and the new row sits on the queue
C19_Witness ==
    /\ sentinel_puts = <<1>>
    /\ worker_pc = "exited"
    /\ data = False
    /\ Len(log_file) = 1
    /\ Len(passed) = 2
    /\ passed[2].ty = "dict"
    /\ log_worker_queue = <<passed[2]>>
    /\ last.op = "log_new_row"

\* C20: the batch count is recorded only when a dataset was supplied.  On a
\* processor constructed without a dataset number_batches raises; on one
\* constructed with a dataset every call returns the number of prepared
\* batches, and release_calibration_dataset, clear_cache_data and finalize
\* leave the recorded count as the constructor set it.
C20_BatchCount ==
    /\ num_batches.set = args.calibration_dataset.given
    /\ num_batches.set => num_batches.n = Len(args.prepared)
    /\ last.op = "number_batches"
       => IF args.calibration_dataset.given
          THEN last.exc = "none" /\ last.n = Len(args.prepared)
          ELSE last.exc = "AttributeError"

\* number_batches returned 2 after the dataset was released, the caches were
\* cleared and finalize had run
C20_Witness ==
    /\ last = Call("number_batches", "none", 2, "")
    /\ calibration_dataset.st = "deleted"
    /\ Released
    /\ tasks = {}

====
